---- MODULE Spec2Model ----
(***************************************************************************)
(* Cake Genie (apcaballes87/cake-genie): the client-side image compression *)
(* engine (utils/imageCompression.js), the upload orchestrator             *)
(* (App.jsx processFiles / uploadToSupabase) and the pricing poller         *)
(* (App.jsx handleCalculatePrice / pollForData / handleRefreshPrice).       *)
(*                                                                         *)
(* JavaScript runs one task at a time, so every action below is one        *)
(* synchronous segment of a handler: from its call, or from the resolution *)
(* of the promise it awaits, up to its next await or its return.           *)
(*                                                                         *)
(* Two specifications share the variables:                                 *)
(*   SpecCompress  one call of compressAndOptimizeImage on a bounded input  *)
(*   Spec          the App component: submits, price calculations,         *)
(*                 refreshes, timers and the user's buttons                *)
(***************************************************************************)
EXTENDS Integers, Sequences, FiniteSets, TLC

VARIABLES
    \* ---- compressAndOptimizeImage (one call) ----
    cfile,          \* the File passed in: [type, size, width, height]
    cpc,            \* position of the call: idle/decoding/encoding/done
    quality,        \* let quality (hundredths: 85 is 0.85)
    tries,          \* let tries
    encLog,         \* every encodeWithFallback result so far: <<[q, size]>>
    cresult,        \* the value the call resolved with (NoResult before)
    \* ---- App component state (useState) ----
    gallery,            \* useState([]): sequence of images
    selectedImageIndex, \* useState(0)
    error,              \* useState(null): "none" or the message shown
    processingState,    \* useState('idle')
    priceResult,        \* useState(null): NoPrice or the payload
    showResults,        \* useState(false): the search results view is open
    \* ---- App refs (useRef) ----
    uploadAbortController, \* ref: 0 (null) or the id of an AbortController
    aborted,               \* the controllers whose signal is aborted
    isProcessingUpload,    \* ref: the single-flight flag
    \* ---- environment and tasks in flight ----
    mounted,        \* the component is mounted (user events can reach it)
    env,            \* import.meta.env: the two VITE_SUPABASE_* values
    submits,        \* sequence of processFiles calls that passed the guard
    calcs,          \* sequence of handleCalculatePrice calls
    refreshes,      \* sequence of handleRefreshPrice calls
    timers,         \* pending setTimeout(..., 5000) callbacks, oldest first
    nextRow         \* number of row identifiers generated so far

compressVars == <<cfile, cpc, quality, tries, encLog, cresult>>
stateVars == <<gallery, selectedImageIndex, error, processingState, priceResult, showResults>>
refVars == <<uploadAbortController, aborted, isProcessingUpload>>
taskVars == <<mounted, env, submits, calcs, refreshes, timers, nextRow>>
appVars == <<stateVars, refVars, taskVars>>
vars == <<compressVars, appVars>>

Max(a, b) == IF a >= b THEN a ELSE b
Min(a, b) == IF a <= b THEN a ELSE b

(***************************************************************************)
(* utils/imageCompression.js                                               *)
(***************************************************************************)
MAX_LONG_EDGE == 1800
TARGET_MAX_BYTES == 1200000
\* Qualities are counted in hundredths: 0.85, 0.60, and the step 0.1 of
\* "quality - 0.1".  In IEEE doubles the sequence max(0.6, q - 0.1) from 0.85
\* is 0.85, 0.75, 0.65, 0.6, the same as in hundredths.
QUALITY_START == 85
QUALITY_MIN == 60
QUALITY_STEP == 10
\* do { ... } while (tries < 5)
MAX_TRIES == 5

\* A value that is absent (undefined / null / a field the object lacks).
Absent == -1
NoResult == [kind |-> "none"]

\* The inputs one call is checked on.  Sizes and edges sit on both sides of
\* the two thresholds.
FileTypes == {"image/jpeg", "image/gif", "text/plain"}
FileSizes == {900000, 1200000, 1200001, 4000000}
Edges == {1, 1200, 1224, 1800, 1801, 2176, 3000, 3600, 4000}
\* What one canvas encode can give: a blob of some size, or no blob.
BlobSizes == {500000, 1200000, 1200001, 2000000}
EncoderOutputs == BlobSizes \cup {Absent}

\* file.type.startsWith('image/')
IsImageType(type) == type \in {"image/jpeg", "image/png", "image/gif", "image/webp"}

\* file.type === 'image/gif'
IsGif_never(type) == FALSE
IsGif(type) == type = "image/gif"

\* Math.round(x / y) for x >= 0, y > 0, on the exact quotient: halves round up.
RoundDiv(x, y) == (2 * x + y) \div (2 * y)

\* src * scale is a product of doubles, and scale = MAX_LONG_EDGE / longEdge
\* is itself rounded: where the exact product is a half, the double can fall
\* just under it and Math.round then rounds down.  Among the Edges this
\* happens for 1224 * (1800 / 2176) = 1012.4999999999999; the other halves
\* (0.5 and 900.5, with scale = 0.5) are exact.  Away from a half the error
\* of the double is far smaller than the distance to the half.
HalfLostInDoubles == {<<1224, 2176>>}

\* Math.round(src * scale) for longEdge > MAX_LONG_EDGE
RoundScaled(src, longEdge) ==
    IF <<src, longEdge>> \in HalfLostInDoubles
    THEN RoundDiv(src * MAX_LONG_EDGE, longEdge) - 1
    ELSE RoundDiv(src * MAX_LONG_EDGE, longEdge)

\* const scale = Math.min(1, MAX_LONG_EDGE / longEdge);
\* Math.max(1, Math.round(src * scale))
TargetEdge_unclamped(src, longEdge) ==
    IF longEdge <= MAX_LONG_EDGE
    THEN src
    ELSE RoundScaled(src, longEdge)
TargetEdge(src, longEdge) ==
    IF longEdge <= MAX_LONG_EDGE
    THEN Max(1, src)
    ELSE Max(1, RoundScaled(src, longEdge))

\* if (longEdge <= MAX_LONG_EDGE && file.size <= TARGET_MAX_BYTES) return original
SkipCompression_strict(longEdge, size) ==
    longEdge < MAX_LONG_EDGE /\ size < TARGET_MAX_BYTES
SkipCompression(longEdge, size) ==
    longEdge <= MAX_LONG_EDGE /\ size <= TARGET_MAX_BYTES

\* The returns that hand back the file itself: { blob: file, ext, compressionRatio: 1 }
\* (and error: error.message from the catch).  They carry no originalSize,
\* compressedSize, dimensions or originalDimensions field.
OriginalResult_withSizes(ext, failed) ==
    [kind |-> "original", blobSize |-> cfile.size, ext |-> ext,
     ratioNum |-> 1, ratioDen |-> 1,
     originalSize |-> cfile.size, compressedSize |-> cfile.size,
     dimensions |-> <<Absent, Absent>>, originalDimensions |-> <<Absent, Absent>>,
     quality |-> Absent, error |-> failed]
OriginalResult(ext, failed) ==
    [kind |-> "original", blobSize |-> cfile.size, ext |-> ext,
     ratioNum |-> 1, ratioDen |-> 1,
     originalSize |-> Absent, compressedSize |-> Absent,
     dimensions |-> <<Absent, Absent>>, originalDimensions |-> <<Absent, Absent>>,
     quality |-> Absent, error |-> failed]

\* catch (error) { return { blob: file, ext, compressionRatio: 1, error: error.message } }
CaughtResult_noMarker == OriginalResult("name|jpg", FALSE)
CaughtResult == OriginalResult("name|jpg", TRUE)

\* return { ...result, compressionRatio, originalSize, compressedSize,
\*          dimensions, originalDimensions }
CompressedResult_inverted(size, ext, q) ==
    [kind |-> "encoded", blobSize |-> size, ext |-> ext,
     ratioNum |-> size, ratioDen |-> cfile.size,
     originalSize |-> cfile.size, compressedSize |-> size,
     dimensions |-> <<TargetEdge(cfile.width, Max(cfile.width, cfile.height)),
                      TargetEdge(cfile.height, Max(cfile.width, cfile.height))>>,
     originalDimensions |-> <<cfile.width, cfile.height>>,
     quality |-> q, error |-> FALSE]
CompressedResult(size, ext, q) ==
    [kind |-> "encoded", blobSize |-> size, ext |-> ext,
     ratioNum |-> cfile.size, ratioDen |-> size,
     originalSize |-> cfile.size, compressedSize |-> size,
     dimensions |-> <<TargetEdge(cfile.width, Max(cfile.width, cfile.height)),
                      TargetEdge(cfile.height, Max(cfile.width, cfile.height))>>,
     originalDimensions |-> <<cfile.width, cfile.height>>,
     quality |-> q, error |-> FALSE]

\* encodeWithFallback: the WebP blob when there is one, else the JPEG blob
\* (which may be null as well).
encodeWithFallback(webp, jpeg) ==
    IF webp # Absent THEN [size |-> webp, ext |-> "webp"]
    ELSE [size |-> jpeg, ext |-> "jpg"]

\* if (result.blob.size <= TARGET_MAX_BYTES || quality <= QUALITY_MIN) break;
Accepts(size, q) == size <= TARGET_MAX_BYTES \/ q <= QUALITY_MIN

\* quality = Math.max(QUALITY_MIN, quality - 0.1)
NextQuality_noFloor(q) == q - QUALITY_STEP
NextQuality(q) == Max(QUALITY_MIN, q - QUALITY_STEP)

\* The two exits of the do-while, seen after an encode made with `t` retries
\* behind it: the break, or tries++ reaching the bound of the while.
LoopExits_untilTarget(size, q, t) == size <= TARGET_MAX_BYTES
LoopExits(size, q, t) == Accepts(size, q) \/ ~(t + 1 < MAX_TRIES)

\* compressAndOptimizeImage(file), up to its first await.
compress_call ==
    /\ cpc = "idle"
    /\ IF ~IsImageType(cfile.type)
       THEN /\ cresult' = OriginalResult("name|bin", FALSE)
            /\ cpc' = "done"
       ELSE IF IsGif(cfile.type)
       THEN /\ cresult' = OriginalResult("gif", FALSE)
            /\ cpc' = "done"
       ELSE /\ cpc' = "decoding"
            /\ UNCHANGED cresult
    /\ UNCHANGED <<cfile, quality, tries, encLog, appVars>>

\* await decodeToBitmap(file) resolved or rejected, then the skip test, the
\* canvas, and the first line of the loop.  decoded: createImageBitmap or the
\* <img> fallback gave a bitmap; canvasOk: getContext('2d') gave a context.
compress_decoded ==
    /\ cpc = "decoding"
    /\ \E decoded \in BOOLEAN, canvasOk \in BOOLEAN :
        IF ~decoded
        THEN /\ cresult' = CaughtResult
             /\ cpc' = "done"
             /\ UNCHANGED <<quality, tries>>
        ELSE IF SkipCompression(Max(cfile.width, cfile.height), cfile.size)
        THEN /\ cresult' = OriginalResult("name|jpg", FALSE)
             /\ cpc' = "done"
             /\ UNCHANGED <<quality, tries>>
        ELSE IF ~canvasOk
        THEN /\ cresult' = CaughtResult
             /\ cpc' = "done"
             /\ UNCHANGED <<quality, tries>>
        ELSE /\ quality' = QUALITY_START
             /\ tries' = 0
             /\ cpc' = "encoding"
             /\ UNCHANGED cresult
    /\ UNCHANGED <<cfile, encLog, appVars>>

\* One turn of the do-while: await encodeWithFallback(canvas, quality), then
\* the break test, the quality step and the while test; after the loop, the
\* return.  A null blob makes result.blob.size throw into the catch.
compress_encoded ==
    /\ cpc = "encoding"
    /\ \E webp \in EncoderOutputs, jpeg \in EncoderOutputs :
        LET r == encodeWithFallback(webp, jpeg) IN
        IF r.size = Absent
        THEN /\ cresult' = CaughtResult
             /\ cpc' = "done"
             /\ encLog' = Append(encLog, [q |-> quality, size |-> Absent])
             /\ UNCHANGED <<quality, tries>>
        ELSE /\ encLog' = Append(encLog, [q |-> quality, size |-> r.size])
             /\ IF LoopExits(r.size, quality, tries)
                THEN /\ cresult' = CompressedResult(r.size, r.ext, quality)
                     /\ cpc' = "done"
                     /\ quality' = IF Accepts(r.size, quality) THEN quality
                                    ELSE NextQuality(quality)
                     /\ tries' = IF Accepts(r.size, quality) THEN tries ELSE tries + 1
                ELSE /\ quality' = NextQuality(quality)
                     /\ tries' = tries + 1
                     /\ UNCHANGED <<cresult, cpc>>
    /\ UNCHANGED <<cfile, appVars>>

(***************************************************************************)
(* App.jsx                                                                 *)
(***************************************************************************)
\* const maxAttempts = 8
maxAttempts == 8
\* validateFile: MAX_SIZE_MB * 1024 * 1024 and MIN_DIMENSION
MAX_SIZE_BYTES == 10485760
MIN_DIMENSION == 200

\* Bounds of the model: how many calls of each handler one behaviour holds.
MaxSubmits == 2
MaxCalcs == 2
MaxRefreshes == 1

\* import.meta.env: VITE_SUPABASE_URL is Undefined or a URL, and
\* VITE_SUPABASE_ANON_KEY is given by its length (Absent when undefined).
Undefined == "undefined"
HttpsUrl == "https://project.supabase.co"
HttpUrl == "http://project.supabase.co"
MIN_KEY_LENGTH == 100
EnvUrls == {Undefined, HttpUrl, HttpsUrl}
EnvKeyLengths == {Absent, MIN_KEY_LENGTH - 1, MIN_KEY_LENGTH}
Envs == [VITE_SUPABASE_URL : EnvUrls, VITE_SUPABASE_ANON_KEY : EnvKeyLengths]
GoodEnv == [VITE_SUPABASE_URL |-> HttpsUrl, VITE_SUPABASE_ANON_KEY |-> MIN_KEY_LENGTH]

\* supabaseUrl.startsWith('https://')
StartsWithHttps(url) == url = HttpsUrl

\* validateSupabaseConfig(): the errors it collects, and isValid.
validateSupabaseConfig_urlOnly(supabaseUrl, supabaseAnonKey) ==
    LET errors == IF supabaseUrl = Undefined THEN <<"VITE_SUPABASE_URL is missing">>
                  ELSE IF ~StartsWithHttps(supabaseUrl)
                  THEN <<"VITE_SUPABASE_URL must be a valid HTTPS URL">>
                  ELSE <<>>
    IN [isValid |-> errors = <<>>, errors |-> errors]
validateSupabaseConfig(supabaseUrl, supabaseAnonKey) ==
    LET urlErrors ==
            IF supabaseUrl = Undefined THEN <<"VITE_SUPABASE_URL is missing">>
            ELSE IF ~StartsWithHttps(supabaseUrl)
            THEN <<"VITE_SUPABASE_URL must be a valid HTTPS URL">>
            ELSE <<>>
        keyErrors ==
            IF supabaseAnonKey = Absent \/ supabaseAnonKey = 0
            THEN <<"VITE_SUPABASE_ANON_KEY is missing">>
            ELSE IF supabaseAnonKey < MIN_KEY_LENGTH
            THEN <<"VITE_SUPABASE_ANON_KEY appears to be invalid (too short)">>
            ELSE <<>>
        errors == urlErrors \o keyErrors
    IN [isValid |-> errors = <<>>, errors |-> errors]

\* const configValidation = validateSupabaseConfig()
configValidation ==
    validateSupabaseConfig(env.VITE_SUPABASE_URL, env.VITE_SUPABASE_ANON_KEY)

\* getSupabaseClient(): the client, created only for a valid configuration.
getSupabaseClient == IF configValidation.isValid THEN "client" ELSE "null"

\* A gallery image: the submit it came from, its `file` ("original", the
\* File the user submitted, or "encoded", the Blob of the compression),
\* whether it has a publicUrl, and dbRecord.rowid (0 without dbRecord).
NoImage == [owner |-> 0, file |-> "none", publicUrl |-> FALSE, rowid |-> 0]
\* priceResult: priceAddon (text), cakeDesignDetails, cakeType, height,
\* rowId, hasRealData, needsRefresh; NoPrice stands for null.
NoPrice ==
    [text |-> "null", cakeDesignDetails |-> "null", cakeType |-> "null",
     height |-> "null", rowId |-> 0, hasRealData |-> FALSE, needsRefresh |-> FALSE]

\* The files the user submits: the 4 MB 3000x2000 JPEG and the 5 MB 150x150
\* PNG of the specification's scenarios, and a text file.
GoodFile == [type |-> "image/jpeg", size |-> 4000000, width |-> 3000, height |-> 2000]
SmallFile == [type |-> "image/png", size |-> 5242880, width |-> 150, height |-> 150]
TextFile == [type |-> "text/plain", size |-> 1000, width |-> 0, height |-> 0]
AppFiles == {GoodFile, SmallFile, TextFile}
NoFile == [type |-> "none", size |-> 0, width |-> 0, height |-> 0]

\* How the FileReader and the Image of validateFile end: both load, or
\* reader.onerror fires, or image.onerror fires.
ReadResults == {"loaded", "readerError", "imageError"}

\* validateFile(file): "none" for null (no error), else the message.
validateFile_strict(file, read) ==
    IF ~IsImageType(file.type) THEN "Invalid file type"
    ELSE IF file.size >= MAX_SIZE_BYTES THEN "File is too large"
    ELSE IF read = "readerError" THEN "Failed to read file"
    ELSE IF read = "imageError" THEN "Could not read image dimensions"
    ELSE IF file.width <= MIN_DIMENSION \/ file.height <= MIN_DIMENSION
         THEN "Image is too small"
    ELSE "none"
validateFile(file, read) ==
    IF ~IsImageType(file.type) THEN "Invalid file type"
    ELSE IF file.size > MAX_SIZE_BYTES THEN "File is too large"
    ELSE IF read = "readerError" THEN "Failed to read file"
    ELSE IF read = "imageError" THEN "Could not read image dimensions"
    ELSE IF file.width < MIN_DIMENSION \/ file.height < MIN_DIMENSION
         THEN "Image is too small"
    ELSE "none"

\* if (validationError) { setError(validationError); ...; return; }
RejectsFile_never(validationError) == FALSE
RejectsFile(validationError) == validationError # "none"

\* validateFile returns a string, not a promise, for the two checks made
\* before the FileReader is created.
ValidatesSynchronously(file) ==
    ~IsImageType(file.type) \/ file.size > MAX_SIZE_BYTES

\* What compressAndOptimizeImage can resolve with for a file of the App:
\* the file itself (skipped, or the catch) or a re-encoded Blob.
CompressKinds(file) ==
    IF ~IsImageType(file.type) \/ IsGif(file.type) THEN {"original"}
    ELSE IF SkipCompression(Max(file.width, file.height), file.size)
    THEN {"original"}
    ELSE {"original", "encoded"}

\* The views of the render: the gallery and pricing view, and the handlers
\* each view offers.
GalleryView == gallery # <<>> /\ ~showResults
\* handleDrop (upload view), handlePaste (search bars, results view).
CanSubmit == mounted /\ (showResults \/ gallery = <<>>)
\* <input id="fileInput" disabled={processingState !== 'idle'}>
CanPickFile == mounted /\ gallery = <<>> /\ ~showResults /\ processingState = "idle"
CanCalculate == mounted /\ GalleryView /\ priceResult = NoPrice /\ processingState = "idle"
CanClear == mounted /\ GalleryView /\ priceResult = NoPrice
CanStartOver == mounted /\ GalleryView /\ priceResult # NoPrice
\* {priceResult.needsRefresh && <button disabled={processingState !== 'idle'}>}
CanRefresh ==
    mounted /\ GalleryView /\ priceResult # NoPrice /\ priceResult.needsRefresh
    /\ processingState = "idle"
CanDismiss == mounted /\ GalleryView /\ error # "none"

\* uploadAbortController.current.signal.aborted: reading .signal of null
\* throws a TypeError.
TokenCheck ==
    IF uploadAbortController = 0 THEN "throws"
    ELSE IF uploadAbortController \in aborted THEN "aborted"
    ELSE "live"

\* The message uploadToSupabase's catch shows for an error whose text holds
\* the given word.
UserFriendlyMessage(word) ==
    CASE word = "not configured" -> "Service configuration error"
      [] word = "storage" -> "File storage error"
      [] word = "database" -> "Database error"
      [] word = "network" -> "Network error"
      [] OTHER -> "Upload failed"

\* The words a failed storage upload's and a failed insert's message can hold.
StorageFailures == {"storage"}
InsertFailures == {"database"}
ReadOutcomes == {"data", "null", "fail"}
\* The priced records a read can return: priceaddon, infoaddon, type and
\* thickness of the row ("" for an empty or null column).
PricingRecords ==
    {[priceaddon |-> 150, infoaddon |-> "Two-tier floral", type |-> "Fondant",
      thickness |-> "4 in"],
     [priceaddon |-> 0, infoaddon |-> "", type |-> "", thickness |-> ""]}

Last(s) == s[Len(s)]
Update(s, i, r) == [s EXCEPT ![i] = r]

InitCompressVars ==
    /\ cfile = NoFile
    /\ cpc = "off"
    /\ quality = 0
    /\ tries = 0
    /\ encLog = <<>>
    /\ cresult = NoResult

InitAppVars ==
    /\ gallery = <<>>
    /\ selectedImageIndex = 0
    /\ error = "none"
    /\ processingState = "idle"
    /\ priceResult = NoPrice
    /\ showResults = FALSE
    /\ uploadAbortController = 0
    /\ aborted = {}
    /\ isProcessingUpload = FALSE
    /\ mounted = TRUE
    /\ submits = <<>>
    /\ calcs = <<>>
    /\ refreshes = <<>>
    /\ timers = <<>>
    /\ nextRow = 0

\* A file name is the sequence of its parts between dots (<<>> when the
\* object has no name: a Blob, unlike a File, has none).  The files of the
\* user are named after their type.
NameOf(file) ==
    CASE file.type = "image/jpeg" -> <<"cake", "jpg">>
      [] file.type = "image/png" -> <<"cake", "png">>
      [] OTHER -> <<"notes", "txt">>

\* const fileName = file.name || 'image';
\* const fileExt = ... (fileName.split('.').pop() || 'jpg')
fileExt(name) ==
    LET fileName == IF name = <<>> THEN <<"image">> ELSE name
        last == fileName[Len(fileName)]
    IN IF last = "" THEN "jpg" ELSE last

(***************************************************************************)
(* processFiles                                                            *)
(***************************************************************************)
\* The name of compressionResult.blob: the File itself when the compression
\* handed it back, a Blob of canvas.toBlob otherwise.
BlobName(rec) == IF rec.blob = "encoded" THEN <<>> ELSE NameOf(rec.file)

\* const filePath = `uploads/${Date.now()}-${random}.${fileExt}`
NoPath == [dir |-> "none", ext |-> "none"]
filePath(name) == [dir |-> "uploads", ext |-> fileExt(name)]

\* The call's closure, and the ghosts stored and inserted (whether the
\* storage upload and the insert of this call completed successfully),
\* row (the rowid of the row it inserted, 0 before) and event (the files of
\* the drop, paste or change event the call came from).
NewSubmit(file, token) ==
    [pc |-> "validating", file |-> file, token |-> token, blob |-> "none",
     path |-> NoPath, rowid |-> 0, stored |-> FALSE, inserted |-> FALSE,
     row |-> 0, event |-> <<>>, end |-> "running"]

\* A call that returned (or threw): its closure is gone, how it ended is kept.
Ended(rec, how) == [rec EXCEPT !.pc = "done", !.end = how]
EndedSubmit(rec, how) ==
    [rec EXCEPT !.pc = "done", !.end = how, !.file = NoFile, !.blob = "none",
                !.path = NoPath, !.rowid = 0, !.event = <<>>]
EndedCalc(rec, how) ==
    [rec EXCEPT !.pc = "done", !.end = how, !.image = NoImage, !.gallery = <<>>]

\* The ghost mark of C5 and C23: the polling loops started before the view
\* was dismissed or a new upload attempt began.
MarkStale(cs) == [c \in DOMAIN cs |-> [cs[c] EXCEPT !.stale = TRUE]]

\* finally { isProcessingUpload.current = false; uploadAbortController.current = null; }
Finally ==
    /\ isProcessingUpload' = FALSE
    /\ uploadAbortController' = 0
    /\ UNCHANGED aborted

\* A token check that does not find a live token.  In the try block an
\* aborted signal returns, and a null controller throws a TypeError into the
\* catch, whose own check throws it again; in the catch an aborted signal
\* skips the error handling.  All of them leave through the finally.
Abandon(i, rec) ==
    /\ submits' = Update(submits, i,
            EndedSubmit(rec, IF TokenCheck = "throws" THEN "threw" ELSE "cancelled"))
    /\ Finally

\* catch (uploadError) { if (!uploadAbortController.current.signal.aborted) {
\*   setProcessingState('error'); ... await the FileReader of the preview
CatchUploadError(i, rec) ==
    IF TokenCheck = "live"
    THEN /\ processingState' = "error"
         /\ submits' = Update(submits, i, [rec EXCEPT !.pc = "previewing"])
         /\ UNCHANGED refVars
    ELSE /\ Abandon(i, rec)
         /\ UNCHANGED processingState

\* if (isProcessingUpload.current) { console.log(...); return; }
GuardDrops_never == FALSE
GuardDrops == isProcessingUpload

\* processFiles(files) while an upload is in flight: the call returns at once.
processFiles_dropped ==
    /\ CanSubmit
    /\ GuardDrops
    /\ UNCHANGED vars

\* processFiles(files) passing the guard, up to `await validateFile(file)`
\* (through it when validateFile returns its string synchronously).
processFiles_event(files, event) ==
    /\ CanSubmit
    /\ ~GuardDrops
    /\ Len(submits) < MaxSubmits
    /\ LET token == Len(submits) + 1
            file == IF files = <<>> THEN NoFile ELSE files[1]
            rec == [NewSubmit(file, token) EXCEPT !.event = event]
        IN
        /\ files = <<>> => CanPickFile
        \* handlePaste keeps only the image files of the clipboard
        /\ (files # <<>> /\ ~IsImageType(file.type)) => (gallery = <<>> /\ ~showResults)
        /\ aborted' = IF uploadAbortController # 0
                      THEN aborted \cup {uploadAbortController} ELSE aborted
        /\ uploadAbortController' = token
        /\ calcs' = IF files = <<>> THEN calcs ELSE MarkStale(calcs)
        /\ IF files = <<>>
           THEN /\ error' = "none"
                /\ isProcessingUpload' = FALSE
                /\ submits' = Append(submits, EndedSubmit(rec, "noFile"))
           ELSE IF ValidatesSynchronously(file)
           THEN /\ error' = validateFile(file, "loaded")
                /\ isProcessingUpload' = FALSE
                /\ submits' = Append(submits, EndedSubmit(rec, "invalid"))
           ELSE /\ error' = "none"
                /\ isProcessingUpload' = TRUE
                /\ submits' = Append(submits, rec)
    /\ UNCHANGED <<compressVars, gallery, selectedImageIndex, processingState,
                   priceResult, showResults, mounted, env, refreshes, timers, nextRow>>

processFiles(files) == processFiles_event(files, files)

\* e.target.files of <input type="file"> (no `multiple`: at most one file),
\* and e.dataTransfer.files / e.clipboardData.files, which may hold several.
InputFiles == {<<>>} \cup {<<f>> : f \in AppFiles}
SeveralFiles == {<<GoodFile, SmallFile>>, <<TextFile, GoodFile>>}
EventFiles == InputFiles \cup SeveralFiles

\* files.filter(file => file.type.startsWith('image/'))
ImagesOf(files) == SelectSeq(files, LAMBDA f : IsImageType(f.type))

\* handleFileChange: processFiles(Array.from(e.target.files))
handleFileChange ==
    \E files \in InputFiles : CanPickFile /\ processFiles(files)

\* handleDrop on the drop zone of the upload view:
\* if (files.length > 0) processFiles([files[0]])
handleDrop_lastFile ==
    \E files \in EventFiles :
        /\ gallery = <<>> /\ ~showResults
        /\ Len(files) > 0
        /\ processFiles_event(<<files[Len(files)]>>, files)
handleDrop ==
    \E files \in EventFiles :
        /\ gallery = <<>> /\ ~showResults
        /\ Len(files) > 0
        /\ processFiles_event(<<files[1]>>, files)

\* handlePaste on the search bars: the first of the image files
handlePaste ==
    \E files \in EventFiles :
        LET images == ImagesOf(files) IN
        /\ Len(images) > 0
        /\ processFiles_event(<<images[1]>>, files)

\* The three entries of processFiles.
processFiles_call == handleFileChange \/ handleDrop \/ handlePaste

\* validateFile's promise resolved: the validation error, or the first
\* token check, setProcessingState('uploading') and the call of
\* compressAndOptimizeImage.
processFiles_validated(i) ==
    /\ submits[i].pc = "validating"
    /\ \E read \in ReadResults :
        LET v == validateFile(submits[i].file, read) IN
        IF RejectsFile(v)
        THEN /\ error' = v
             /\ isProcessingUpload' = FALSE
             /\ submits' = Update(submits, i, EndedSubmit(submits[i], "invalid"))
             /\ UNCHANGED <<processingState, uploadAbortController, aborted>>
        ELSE IF TokenCheck = "live"
        THEN /\ processingState' = "uploading"
             /\ submits' = Update(submits, i, [submits[i] EXCEPT !.pc = "compressing"])
             /\ UNCHANGED <<error, refVars>>
        ELSE /\ Abandon(i, submits[i])
             /\ UNCHANGED <<error, processingState>>
    /\ UNCHANGED <<compressVars, gallery, selectedImageIndex, priceResult,
                   showResults, mounted, env, calcs, refreshes,
                   timers, nextRow>>

\* compressAndOptimizeImage resolved: the token check, then uploadToSupabase
\* up to the storage upload it awaits.  Without a client uploadImageToSupabase
\* throws before any remote call, and both catches run at once.
processFiles_compressed(i) ==
    /\ submits[i].pc = "compressing"
    /\ \E kind \in CompressKinds(submits[i].file) :
        LET rec == [submits[i] EXCEPT !.blob = kind] IN
        IF TokenCheck # "live"
        THEN /\ Abandon(i, rec)
             /\ UNCHANGED <<error, processingState>>
        ELSE IF getSupabaseClient = "null"
        THEN /\ error' = UserFriendlyMessage("not configured")
             /\ CatchUploadError(i, rec)
        ELSE /\ error' = "none"
             /\ submits' = Update(submits, i,
                    [rec EXCEPT !.pc = "storing", !.path = filePath(BlobName(rec))])
             /\ UNCHANGED <<processingState, refVars>>
    /\ UNCHANGED <<compressVars, gallery, selectedImageIndex, priceResult,
                   showResults, mounted, env, calcs, refreshes,
                   timers, nextRow>>

\* The storage upload resolved.  Success: getPublicUrl, then
\* saveImageToDatabase generates the row identifier and awaits the insert.
\* Failure: uploadToSupabase's catch sets the message and rethrows.
processFiles_stored_insertsAnyway(i) ==
    /\ submits[i].pc = "storing"
    /\ \/ /\ submits' = Update(submits, i,
                [submits[i] EXCEPT !.pc = "inserting", !.rowid = nextRow + 1,
                                   !.stored = TRUE])
          /\ UNCHANGED error
       \/ /\ submits' = Update(submits, i,
                [submits[i] EXCEPT !.pc = "inserting", !.rowid = nextRow + 1])
          /\ error' = UserFriendlyMessage("storage")
    /\ nextRow' = nextRow + 1
    /\ UNCHANGED <<compressVars, gallery, selectedImageIndex, priceResult,
                   processingState, refVars, showResults, mounted, env, calcs,
                   refreshes, timers>>
processFiles_stored(i) ==
    /\ submits[i].pc = "storing"
    /\ \/ /\ submits' = Update(submits, i,
                [submits[i] EXCEPT !.pc = "inserting", !.rowid = nextRow + 1,
                                   !.stored = TRUE])
          /\ nextRow' = nextRow + 1
          /\ UNCHANGED <<error, processingState, refVars>>
       \/ \E word \in StorageFailures :
          /\ error' = UserFriendlyMessage(word)
          /\ CatchUploadError(i, submits[i])
          /\ UNCHANGED nextRow
    /\ UNCHANGED <<compressVars, gallery, selectedImageIndex, priceResult,
                   showResults, mounted, env, calcs, refreshes,
                   timers>>

\* The insert resolved.  Success: uploadToSupabase returns, the token check,
\* and the FileReader of the preview is awaited.
processFiles_inserted(i) ==
    /\ submits[i].pc = "inserting"
    /\ \/ /\ LET rec == [submits[i] EXCEPT !.inserted = TRUE, !.row = submits[i].rowid] IN
             IF TokenCheck = "live"
             THEN /\ submits' = Update(submits, i, [rec EXCEPT !.pc = "finalizing"])
                  /\ UNCHANGED refVars
             ELSE Abandon(i, rec)
          /\ UNCHANGED <<error, processingState>>
       \/ \E word \in InsertFailures :
          /\ error' = UserFriendlyMessage(word)
          /\ CatchUploadError(i, submits[i])
    /\ UNCHANGED <<compressVars, gallery, selectedImageIndex, priceResult,
                   showResults, mounted, env, calcs, refreshes,
                   timers, nextRow>>

\* // Upload complete - set state to idle
FinalizeState_complete == "complete"
FinalizeState == "idle"

\* The preview of the uploaded blob was read: setGallery([newImage]),
\* setSelectedImageIndex(0), setProcessingState('idle'), and the finally.
processFiles_finalized(i) ==
    /\ submits[i].pc = "finalizing"
    /\ gallery' = <<[owner |-> i, file |-> submits[i].blob, publicUrl |-> TRUE,
                     rowid |-> submits[i].rowid]>>
    /\ selectedImageIndex' = 0
    /\ processingState' = FinalizeState
    /\ submits' = Update(submits, i, EndedSubmit(submits[i], "ok"))
    /\ Finally
    /\ UNCHANGED <<compressVars, error, priceResult, showResults, mounted,
                   env, calcs, refreshes, timers, nextRow>>

\* const newImage = { id: Date.now() + Math.random(), dataUrl, file };
PreviewImage_ofBlob(i) ==
    [owner |-> i, file |-> submits[i].blob, publicUrl |-> FALSE, rowid |-> 0]
PreviewImage(i) ==
    [owner |-> i, file |-> "original", publicUrl |-> FALSE, rowid |-> 0]

\* The preview of the original file was read in the catch: the local-only
\* image, the 5 s timer that resets processingState, and the finally.
processFiles_previewed(i) ==
    /\ submits[i].pc = "previewing"
    /\ gallery' = <<PreviewImage(i)>>
    /\ selectedImageIndex' = 0
    /\ timers' = Append(timers, <<"reset", i>>)
    /\ submits' = Update(submits, i, EndedSubmit(submits[i], "failed"))
    /\ Finally
    /\ UNCHANGED <<compressVars, error, processingState, priceResult, showResults,
                   mounted, env, calcs, refreshes, nextRow>>

\* setTimeout(() => { setProcessingState('idle'); ... }, 5000) fires.  Every
\* timer of the component waits 5000 ms, so they fire in the order they were set.
resetTimer_fired ==
    /\ timers # <<>>
    /\ Head(timers)[1] = "reset"
    /\ processingState' = "idle"
    /\ timers' = Tail(timers)
    /\ UNCHANGED <<compressVars, gallery, selectedImageIndex, error, priceResult,
                   showResults, refVars, mounted, env, submits, calcs, refreshes, nextRow>>

(***************************************************************************)
(* handleCalculatePrice and pollForData                                    *)
(***************************************************************************)
\* The call's closure: the image and the gallery of the render it was made
\* in, dbRecord.rowid, `attempts`; and the ghosts reads (fetchPricingData
\* calls that reached the database), firstData (the read that first
\* returned a price, 0 before), stale, owner (the submit the image came
\* from), stored and inserted (as in NewSubmit).
NewCalc_freshId(img, gal) ==
    [pc |-> "storing", image |-> img, gallery |-> gal, rowid |-> nextRow + 1,
     attempts |-> 0, reads |-> 0, firstData |-> 0, owner |-> img.owner,
     stored |-> FALSE, inserted |-> FALSE,
     stale |-> FALSE, end |-> "running"]
NewCalc(img, gal) ==
    [pc |-> "storing", image |-> img, gallery |-> gal, rowid |-> img.rowid,
     attempts |-> 0, reads |-> 0, firstData |-> 0, owner |-> img.owner,
     stored |-> FALSE, inserted |-> FALSE,
     stale |-> FALSE, end |-> "running"]

\* setPriceResult({ priceAddon: 'Processing...', ..., rowId: dbRecord.rowid,
\*                  hasRealData: false })
ProcessingPayload(rowid) ==
    [text |-> "Processing...", cakeDesignDetails |-> "AI is analyzing your design...",
     cakeType |-> "Determining...", height |-> "Calculating...",
     rowId |-> rowid, hasRealData |-> FALSE, needsRefresh |-> FALSE]

\* value || fallback, for a string column
OrDefault(value, fallback) == IF value = "" THEN fallback ELSE value

\* setPriceResult({ priceAddon: `+₱${data.priceaddon}`,
\*   cakeDesignDetails: data.infoaddon || 'Design analyzed',
\*   cakeType: data.type || 'Custom', height: data.thickness || 'Standard',
\*   rowId: data.rowid, ..., hasRealData: true })
RealPayload_noCurrency(data, rowid) ==
    [text |-> "+" \o ToString(data.priceaddon),
     cakeDesignDetails |-> OrDefault(data.infoaddon, "Design analyzed"),
     cakeType |-> OrDefault(data.type, "Custom"),
     height |-> OrDefault(data.thickness, "Standard"),
     rowId |-> rowid, hasRealData |-> TRUE, needsRefresh |-> FALSE]
RealPayload(data, rowid) ==
    [text |-> "+₱" \o ToString(data.priceaddon),
     cakeDesignDetails |-> OrDefault(data.infoaddon, "Design analyzed"),
     cakeType |-> OrDefault(data.type, "Custom"),
     height |-> OrDefault(data.thickness, "Standard"),
     rowId |-> rowid, hasRealData |-> TRUE, needsRefresh |-> FALSE]

\* setPriceResult(prevResult => ({ ...prevResult, priceAddon: text,
\*   cakeDesignDetails: ..., cakeType: text, height: text,
\*   hasRealData: false, needsRefresh: true }))
GiveUpPayload(prev, text) ==
    [prev EXCEPT !.text = text,
                 !.cakeDesignDetails =
                    IF text = "Error" THEN "Please refresh to try again"
                    ELSE "Analysis taking longer than expected - please refresh",
                 !.cakeType = text, !.height = text,
                 !.hasRealData = FALSE, !.needsRefresh = TRUE]

\* if (attempts < maxAttempts) setTimeout(pollForData, 5000)
AttemptsRemain_offByOne(attempts) == attempts <= maxAttempts
AttemptsRemain(attempts) == attempts < maxAttempts

\* catch (error) { if (attempts < maxAttempts) setTimeout(pollForData, 5000)
RetryAfterError_always(attempts) == TRUE
RetryAfterError(attempts) == attempts < maxAttempts

\* if (data && data.priceaddon !== null && data.priceaddon !== undefined)
\*   { setPriceResult(...); ...; return; // Stop polling }
StopsOnData_keepsPolling(outcome) == FALSE
StopsOnData(outcome) == outcome = "data"

\* catch (err) { setError(`Failed to calculate price: ...`);
\*               setProcessingState('error'); }
CalcFailed(c) ==
    /\ error' = "Failed to calculate price"
    /\ processingState' = "error"
    /\ calcs' = Update(calcs, c, EndedCalc(calcs[c], "failed"))

\* The tail of handleCalculatePrice's try: the processing payload and
\* setTimeout(pollForData, 5000).
StartPolling(c, rec) ==
    /\ priceResult' = ProcessingPayload(rec.rowid)
    /\ timers' = Append(timers, <<"poll", c>>)
    /\ calcs' = Update(calcs, c, [rec EXCEPT !.pc = "timer"])

\* handleCalculatePrice(), up to the storage upload it awaits or, for an
\* image that carries publicUrl and dbRecord, through setTimeout.
handleCalculatePrice_call ==
    /\ CanCalculate
    /\ gallery # <<>>
    /\ Len(calcs) < MaxCalcs
    /\ LET c == Len(calcs) + 1
           img == gallery[selectedImageIndex + 1]
           rec == NewCalc(img, gallery)
       IN
       IF img.publicUrl /\ img.rowid # 0
       THEN /\ processingState' = "processing"
            /\ error' = "none"
            /\ priceResult' = ProcessingPayload(rec.rowid)
            /\ timers' = Append(timers, <<"poll", c>>)
            /\ calcs' = Append(calcs, [rec EXCEPT !.pc = "timer"])
       ELSE IF getSupabaseClient = "null"
       THEN /\ error' = "Failed to calculate price"
            /\ processingState' = "error"
            /\ priceResult' = NoPrice
            /\ calcs' = Append(calcs, EndedCalc(rec, "failed"))
            /\ UNCHANGED timers
       ELSE /\ processingState' = "processing"
            /\ error' = "none"
            /\ priceResult' = NoPrice
            /\ calcs' = Append(calcs, rec)
            /\ UNCHANGED timers
    /\ UNCHANGED <<compressVars, gallery, selectedImageIndex, showResults, refVars,
                   mounted, env, submits, refreshes, nextRow>>

\* The storage upload of uploadToSupabase(selectedImage.file) resolved.
handleCalculatePrice_stored(c) ==
    /\ calcs[c].pc = "storing"
    /\ \/ /\ calcs' = Update(calcs, c,
                [calcs[c] EXCEPT !.pc = "inserting", !.rowid = nextRow + 1,
                                 !.stored = TRUE])
          /\ nextRow' = nextRow + 1
          /\ UNCHANGED <<error, processingState>>
       \/ /\ CalcFailed(c)
          /\ UNCHANGED nextRow
    /\ UNCHANGED <<compressVars, gallery, selectedImageIndex, priceResult,
                   showResults, refVars, mounted, env, submits, refreshes, timers>>

\* The insert resolved: the gallery of the call's render is written back
\* with the image updated, then the polling starts.
handleCalculatePrice_inserted(c) ==
    /\ calcs[c].pc = "inserting"
    /\ \/ /\ gallery' = [calcs[c].gallery EXCEPT ![selectedImageIndex + 1] =
                [calcs[c].image EXCEPT !.publicUrl = TRUE, !.rowid = calcs[c].rowid]]
          /\ StartPolling(c, [calcs[c] EXCEPT !.inserted = TRUE])
          /\ UNCHANGED <<error, processingState>>
       \/ /\ CalcFailed(c)
          /\ UNCHANGED <<gallery, priceResult, timers>>
    /\ UNCHANGED <<compressVars, selectedImageIndex, showResults, refVars, mounted,
                   env, submits, refreshes, nextRow>>

\* After a read that did not stop the loop: the retry, or the give-up
\* payload of the try (no price) or of the catch (outcome "fail").  tq is
\* the timer queue the segment started with.
PollNoData(c, rec, outcome, tq) ==
    IF (outcome = "fail" /\ RetryAfterError(rec.attempts))
       \/ (outcome # "fail" /\ AttemptsRemain(rec.attempts))
    THEN /\ timers' = Append(tq, <<"poll", c>>)
         /\ calcs' = Update(calcs, c, [rec EXCEPT !.pc = "timer"])
         /\ UNCHANGED <<priceResult, processingState>>
    ELSE /\ timers' = tq
         /\ priceResult' = GiveUpPayload(priceResult,
                IF outcome = "fail" THEN "Error" ELSE "Still processing...")
         /\ processingState' = IF outcome = "fail" THEN "error" ELSE "complete"
         /\ calcs' = Update(calcs, c,
                EndedCalc(rec, IF outcome = "fail" THEN "error" ELSE "timeout"))

\* The timer of pollForData fires: attempts++ and fetchPricingData, which
\* throws before any remote call when there is no client.
pollForData_tick(c) ==
    /\ timers # <<>>
    /\ Head(timers) = <<"poll", c>>
    /\ calcs[c].pc = "timer"
    /\ LET rec == [calcs[c] EXCEPT !.attempts = @ + 1] IN
       IF getSupabaseClient = "null"
       THEN PollNoData(c, rec, "fail", Tail(timers))
       ELSE /\ timers' = Tail(timers)
            /\ calcs' = Update(calcs, c,
                    [rec EXCEPT !.pc = "reading", !.reads = @ + 1])
            /\ UNCHANGED <<priceResult, processingState>>
    /\ UNCHANGED <<compressVars, gallery, selectedImageIndex, error, showResults,
                   refVars, mounted, env, submits, refreshes,
                   nextRow>>

\* The read of pollForData resolved: with a price ("data"), with a record
\* whose priceaddon is null ("null"), or it threw ("fail").
pollForData_resolved(c) ==
    /\ calcs[c].pc = "reading"
    /\ \E outcome \in ReadOutcomes, data \in PricingRecords :
        LET rec == [calcs[c] EXCEPT
                      !.firstData = IF outcome = "data" /\ @ = 0
                                    THEN calcs[c].reads ELSE @]
        IN
        IF StopsOnData(outcome)
        THEN /\ priceResult' = RealPayload(data, rec.rowid)
             /\ processingState' = "complete"
             /\ calcs' = Update(calcs, c, EndedCalc(rec, "data"))
             /\ UNCHANGED timers
        ELSE PollNoData(c, rec, outcome, timers)
    /\ UNCHANGED <<compressVars, gallery, selectedImageIndex, error, showResults,
                   refVars, mounted, env, submits, refreshes,
                   nextRow>>

(***************************************************************************)
(* handleRefreshPrice                                                      *)
(***************************************************************************)
\* handleRefreshPrice(), up to the read it awaits.  rowId and supabaseUrl
\* are those of the priceResult of the render the call was made in.
handleRefreshPrice_call ==
    /\ CanRefresh
    /\ priceResult.rowId # 0
    /\ Len(refreshes) < MaxRefreshes
    /\ IF getSupabaseClient = "null"
       THEN /\ error' = "Failed to refresh pricing"
            /\ processingState' = "idle"
            /\ refreshes' = Append(refreshes,
                    [pc |-> "done", rowId |-> priceResult.rowId, reads |-> 0,
                     end |-> "fail"])
       ELSE /\ processingState' = "processing"
            /\ refreshes' = Append(refreshes,
                    [pc |-> "reading", rowId |-> priceResult.rowId, reads |-> 1,
                     end |-> "running"])
            /\ UNCHANGED error
    /\ UNCHANGED <<compressVars, gallery, selectedImageIndex, priceResult,
                   showResults, refVars, mounted, env, submits, calcs, timers, nextRow>>

\* The else branch and the catch of handleRefreshPrice: the message,
\* setProcessingState('idle'), and nothing else.
RefreshNoData_retries(r, outcome) ==
    /\ error' = "Pricing data not ready yet"
    /\ processingState' = "idle"
    /\ refreshes' = Update(refreshes, r, refreshes[r])
    /\ timers' = Append(timers, <<"refresh", r>>)
RefreshNoData(r, outcome) ==
    /\ error' = IF outcome = "null" THEN "Pricing data not ready yet"
                ELSE "Failed to refresh pricing"
    /\ processingState' = "idle"
    /\ refreshes' = Update(refreshes, r, Ended(refreshes[r], outcome))
    /\ UNCHANGED timers

\* The read of handleRefreshPrice resolved.
handleRefreshPrice_resolved_clearsPrice(r) ==
    /\ refreshes[r].pc = "reading"
    /\ \E outcome \in ReadOutcomes, data \in PricingRecords :
        IF outcome = "data"
        THEN /\ priceResult' = RealPayload(data, refreshes[r].rowId)
             /\ processingState' = "complete"
             /\ error' = "none"
             /\ refreshes' = Update(refreshes, r, Ended(refreshes[r], outcome))
             /\ UNCHANGED timers
        ELSE /\ RefreshNoData(r, outcome)
             /\ priceResult' = NoPrice
    /\ UNCHANGED <<compressVars, gallery, selectedImageIndex, showResults, refVars,
                   mounted, env, submits, calcs, nextRow>>
handleRefreshPrice_resolved(r) ==
    /\ refreshes[r].pc = "reading"
    /\ \E outcome \in ReadOutcomes, data \in PricingRecords :
        IF outcome = "data"
        THEN /\ priceResult' = RealPayload(data, refreshes[r].rowId)
             /\ processingState' = "complete"
             /\ error' = "none"
             /\ refreshes' = Update(refreshes, r, Ended(refreshes[r], outcome))
             /\ UNCHANGED timers
        ELSE /\ RefreshNoData(r, outcome)
             /\ UNCHANGED priceResult
    /\ UNCHANGED <<compressVars, gallery, selectedImageIndex, showResults, refVars,
                   mounted, env, submits, calcs, nextRow>>

(***************************************************************************)
(* The buttons of the render and the unmount cleanup                       *)
(***************************************************************************)
\* Start Over: onClick={() => {setPriceResult(null); setGallery([]);}}
startOver ==
    /\ CanStartOver
    /\ priceResult' = NoPrice
    /\ gallery' = <<>>
    /\ calcs' = MarkStale(calcs)
    /\ UNCHANGED <<compressVars, selectedImageIndex, error, processingState,
                   showResults, refVars, mounted, env, submits, refreshes, timers, nextRow>>

\* Clear image: onClick={() => setGallery([])}
clearImage ==
    /\ CanClear
    /\ gallery' = <<>>
    /\ UNCHANGED <<compressVars, selectedImageIndex, error, processingState,
                   priceResult, showResults, refVars, taskVars>>

\* Dismiss: onClick={() => setError(null)}
dismissError_resetsState ==
    /\ CanDismiss
    /\ error' = "none"
    /\ processingState' = "idle"
    /\ UNCHANGED <<compressVars, gallery, selectedImageIndex,
                   priceResult, showResults, refVars, taskVars>>
dismissError ==
    /\ CanDismiss
    /\ error' = "none"
    /\ UNCHANGED <<compressVars, gallery, selectedImageIndex, processingState,
                   priceResult, showResults, refVars, taskVars>>

\* handleSearch from the search bar of the initial view: setShowResults(true)
handleSearch ==
    /\ mounted /\ ~showResults /\ gallery = <<>>
    /\ showResults' = TRUE
    /\ UNCHANGED <<compressVars, gallery, selectedImageIndex, error,
                   processingState, priceResult, refVars, taskVars>>

\* closeResults: setShowResults(false)
closeResults ==
    /\ mounted /\ showResults
    /\ showResults' = FALSE
    /\ UNCHANGED <<compressVars, gallery, selectedImageIndex, error,
                   processingState, priceResult, refVars, taskVars>>

\* The cleanup of useEffect(() => { return () => {...} }, []): abort the
\* upload controller, null it, reset the single-flight flag.
unmount ==
    /\ mounted
    /\ mounted' = FALSE
    /\ aborted' = IF uploadAbortController # 0
                  THEN aborted \cup {uploadAbortController} ELSE aborted
    /\ uploadAbortController' = 0
    /\ isProcessingUpload' = FALSE
    /\ calcs' = MarkStale(calcs)
    /\ UNCHANGED <<compressVars, stateVars, env, submits, refreshes, timers, nextRow>>

Init ==
    /\ InitCompressVars
    /\ InitAppVars
    /\ env \in Envs

Next ==
    \/ processFiles_dropped
    \/ processFiles_call
    \/ \E i \in DOMAIN submits : processFiles_validated(i)
    \/ \E i \in DOMAIN submits : processFiles_compressed(i)
    \/ \E i \in DOMAIN submits : processFiles_stored(i)
    \/ \E i \in DOMAIN submits : processFiles_inserted(i)
    \/ \E i \in DOMAIN submits : processFiles_finalized(i)
    \/ \E i \in DOMAIN submits : processFiles_previewed(i)
    \/ resetTimer_fired
    \/ handleCalculatePrice_call
    \/ \E c \in DOMAIN calcs : handleCalculatePrice_stored(c)
    \/ \E c \in DOMAIN calcs : handleCalculatePrice_inserted(c)
    \/ \E c \in DOMAIN calcs : pollForData_tick(c)
    \/ \E c \in DOMAIN calcs : pollForData_resolved(c)
    \/ handleRefreshPrice_call
    \/ \E r \in DOMAIN refreshes : handleRefreshPrice_resolved(r)
    \/ startOver
    \/ clearImage
    \/ dismissError
    \/ handleSearch
    \/ closeResults
    \/ unmount

Spec == Init /\ [][Next]_vars

\* The promises a submit awaits that are sure to settle: validateFile
\* resolves from onload and from both onerror handlers,
\* compressAndOptimizeImage resolves on every path, and the storage upload
\* and the insert resolve or reject.  The promise of the preview read
\* resolves from reader.onload only, and no onerror is set: it is not sure
\* to settle, and gets no fairness.
SettlingAwaits ==
    /\ WF_vars(\E i \in DOMAIN submits : processFiles_validated(i))
    /\ WF_vars(\E i \in DOMAIN submits : processFiles_compressed(i))
    /\ WF_vars(\E i \in DOMAIN submits : processFiles_stored(i))
    /\ WF_vars(\E i \in DOMAIN submits : processFiles_inserted(i))
SpecLive == Spec /\ SettlingAwaits

\* One call of compressAndOptimizeImage on any file of the bounded input set.
InitCompress ==
    /\ cfile \in [type : FileTypes, size : FileSizes, width : Edges, height : Edges]
    /\ cpc = "idle"
    /\ quality = 0
    /\ tries = 0
    /\ encLog = <<>>
    /\ cresult = NoResult
    /\ InitAppVars
    /\ env = GoodEnv

NextCompress == compress_call \/ compress_decoded \/ compress_encoded

SpecCompress == InitCompress /\ [][NextCompress]_vars

\* One submission of any file of a bounded input set, up to the end of its
\* validation.  Sizes sit on both sides of 10 MB, edges on both sides of 200.
ValidateInputs ==
    [type : {"image/png", "text/plain"},
     size : {5242880, 10485760, 10485761},
     width : {150, 199, 200, 300},
     height : {150, 199, 200, 300}]

InitValidate ==
    /\ cfile \in ValidateInputs
    /\ cpc = "off"
    /\ quality = 0
    /\ tries = 0
    /\ encLog = <<>>
    /\ cresult = NoResult
    /\ InitAppVars
    /\ env = GoodEnv

validate_submit == submits = <<>> /\ processFiles(<<cfile>>)
validate_resolved == submits # <<>> /\ processFiles_validated(1)

NextValidate == validate_submit \/ validate_resolved

SpecValidate == InitValidate /\ [][NextValidate]_vars

(***************************************************************************)
(* Properties of the App component, under Spec                             *)
(***************************************************************************)
SubmitsInFlight == {i \in DOMAIN submits : submits[i].pc # "done"}
\* The storage uploads of uploadToSupabase that were issued and have not
\* resolved, whoever called uploadToSupabase.
StorageWritesInProgress ==
    {<<"submit", i>> : i \in {j \in DOMAIN submits : submits[j].pc = "storing"}}
    \cup {<<"calc", c>> : c \in {d \in DOMAIN calcs : calcs[d].pc = "storing"}}
PollTimerPending(c) == \E k \in 1..Len(timers) : timers[k] = <<"poll", c>>

\* C1: single-flight: at most one processFiles call is past the guard at a
\* time (a call made meanwhile is dropped and starts nothing), and over any
\* interleaving at most one storage write is in progress.
C1_SingleFlight ==
    /\ Cardinality(SubmitsInFlight) <= 1
    /\ Cardinality(StorageWritesInProgress) <= 1

\* The half of C1 that is about processFiles alone: one submission in
\* flight at a time, so one storage write of a submission at a time.
C1_SubmitsOnly ==
    /\ Cardinality(SubmitsInFlight) <= 1
    /\ isProcessingUpload => Cardinality(SubmitsInFlight) = 1

\* C2: when a read of a polling loop is the first to return a price, at its
\* N-th read, the loop has stopped: it published hasRealData = true, it has
\* issued exactly N reads (N <= 8), it holds no timer, and it never reads again.
C2_StopsAtFirstData ==
    /\ [](\A c \in DOMAIN calcs :
            calcs[c].firstData # 0 =>
                /\ calcs[c].pc = "done" /\ calcs[c].end = "data"
                /\ calcs[c].reads = calcs[c].firstData
                /\ calcs[c].firstData <= maxAttempts
                /\ ~PollTimerPending(c))
    /\ [][\A c \in DOMAIN calcs :
            /\ (calcs[c].firstData = 0 /\ calcs'[c].firstData # 0) =>
                    /\ priceResult'.hasRealData
                    /\ calcs'[c].end = "data"
            /\ calcs[c].pc = "done" => calcs'[c].reads = calcs[c].reads]_vars

\* A loop stopped by the price its 8th read returned, the payload on display.
C2_Witness ==
    \E c \in DOMAIN calcs :
        /\ calcs[c].firstData = maxAttempts
        /\ calcs[c].pc = "done"
        /\ priceResult.hasRealData

\* C3: no polling loop issues or schedules a 9th read, and a loop whose 8th
\* read returns no price ends there, publishing needsRefresh = true and
\* hasRealData = false and setting processingState to 'complete'.
C3_GivesUpAfterEight ==
    /\ [](\A c \in DOMAIN calcs :
            /\ calcs[c].reads <= maxAttempts
            /\ PollTimerPending(c) => calcs[c].attempts < maxAttempts
            /\ calcs[c].end = "timeout" =>
                    /\ calcs[c].reads = maxAttempts
                    /\ calcs[c].firstData = 0
                    /\ ~PollTimerPending(c))
    /\ [][\A c \in DOMAIN calcs :
            (calcs[c].end # "timeout" /\ calcs'[c].end = "timeout") =>
                /\ priceResult'.needsRefresh
                /\ ~priceResult'.hasRealData
                /\ processingState' = "complete"]_vars

\* A loop gave up after 8 reads and its payload is on display.
C3_Witness ==
    \E c \in DOMAIN calcs :
        /\ calcs[c].end = "timeout"
        /\ calcs[c].reads = maxAttempts
        /\ priceResult.needsRefresh /\ ~priceResult.hasRealData
        /\ processingState = "complete"

\* C4: a read that throws is retried like a read without a price: while
\* fewer than 8 attempts were made, a read that returns no price or throws
\* sets the next timer; a loop issues at most 8 reads whatever the mixture;
\* a loop whose 8th attempt throws ends with the error payload
\* (needsRefresh = true); and every loop ends in one of its three terminal
\* payloads, never by throwing.
C4_ErrorsShareTheBudget ==
    /\ [](\A c \in DOMAIN calcs :
            /\ calcs[c].attempts <= maxAttempts
            /\ calcs[c].reads <= calcs[c].attempts
            /\ calcs[c].end = "error" => calcs[c].attempts = maxAttempts
            /\ calcs[c].end \in {"running", "failed", "data", "timeout", "error"})
    /\ [][\A c \in DOMAIN calcs :
            /\ (calcs[c].pc = "reading" /\ calcs[c].attempts < maxAttempts
                /\ calcs'[c].pc # "reading" /\ calcs'[c].firstData = 0) =>
                    /\ calcs'[c].pc = "timer"
                    /\ timers' = Append(timers, <<"poll", c>>)
            /\ (calcs[c].end # "error" /\ calcs'[c].end = "error") =>
                    /\ priceResult'.needsRefresh
                    /\ priceResult'.text = "Error"
                    /\ ~priceResult'.hasRealData]_vars

\* A loop ended by the failure of its 8th read.
C4_Witness ==
    \E c \in DOMAIN calcs :
        /\ calcs[c].end = "error"
        /\ calcs[c].reads = maxAttempts
        /\ priceResult.needsRefresh /\ priceResult.text = "Error"

\* C5: once the view is dismissed (unmount or Start Over) or a new upload
\* attempt has begun, a polling loop started before issues no further read.
C5_NoReadAfterDismissal ==
    [][\A c \in DOMAIN calcs :
        calcs[c].stale => calcs'[c].reads = calcs[c].reads]_vars

\* C6: in the state a polling loop leaves behind when it gives up (its view
\* still mounted and on display), the refresh control is enabled and a
\* click on it performs a read.
C6_RefreshUsableAfterGiveUp ==
    [][\A c \in DOMAIN calcs :
        (/\ calcs[c].pc # "done"
         /\ calcs'[c].end \in {"timeout", "error"}
         /\ ~calcs'[c].stale
         /\ mounted' /\ GalleryView') =>
            (CanRefresh' /\ priceResult'.rowId # 0)]_vars

\* C7: a refresh issues exactly one read; the steps of a refresh neither set
\* a timer nor touch a polling loop.
C7_RefreshIsOneShot ==
    /\ [](\A r \in DOMAIN refreshes :
            /\ refreshes[r].reads = 1
            /\ \A k \in 1..Len(timers) : timers[k][1] \in {"reset", "poll"})
    /\ [][refreshes' # refreshes => (timers' = timers /\ calcs' = calcs)]_vars

\* A refresh whose read returned no price has ended.
C7_Witness ==
    \E r \in DOMAIN refreshes :
        /\ refreshes[r].pc = "done"
        /\ refreshes[r].end = "null"
        /\ processingState = "idle"

InUploadSteps == {"compressing", "storing", "inserting", "finalizing"}
ValidFile(file) ==
    /\ IsImageType(file.type)
    /\ file.size <= MAX_SIZE_BYTES
    /\ file.width >= MIN_DIMENSION /\ file.height >= MIN_DIMENSION
\* Submission i ends in this step, in the given way.
EndsNow(i, how) ==
    /\ i \in DOMAIN submits'
    /\ submits'[i].end = how
    /\ (i \in DOMAIN submits => submits[i].end # how)

\* C15: a file that validation rejects never reaches compression, the
\* storage upload or the insert; the step that rejects it shows the
\* message and leaves processingState, gallery, priceResult and the row
\* counter as they were; and it releases the single-flight flag, so the
\* next submit is not dropped.
C15_RejectionOnlySurfacesError ==
    /\ [](\A i \in DOMAIN submits :
            submits[i].pc \in InUploadSteps \cup {"previewing"} =>
                ValidFile(submits[i].file))
    /\ [][\A i \in DOMAIN submits' :
            EndsNow(i, "invalid") =>
                /\ error' # "none"
                /\ processingState' = processingState
                /\ gallery' = gallery
                /\ selectedImageIndex' = selectedImageIndex
                /\ priceResult' = priceResult
                /\ nextRow' = nextRow
                /\ ~isProcessingUpload'
                /\ ~GuardDrops'
                /\ i \in DOMAIN submits => submits[i].pc = "validating"]_vars

\* The 150 x 150 PNG was rejected as too small, and the submit made after
\* it was accepted and is being compressed.
C15_Witness ==
    /\ Len(submits) = 2
    /\ submits[1].end = "invalid"
    /\ submits[2].pc = "compressing"
    /\ gallery = <<>> /\ priceResult = NoPrice

C17_ErrorResetsToIdle ==
    [][/\ \A i \in DOMAIN submits' :
            EndsNow(i, "failed") =>
                \E k \in 1..Len(timers') : timers'[k] = <<"reset", i>>
       /\ \A c \in DOMAIN calcs' :
            (/\ calcs'[c].end = "failed"
             /\ c \in DOMAIN calcs => calcs[c].end # "failed"
             /\ processingState' = "error") =>
                \E k \in 1..Len(timers') : timers'[k][1] = "reset"]_vars

\* The token of submission i was cancelled (controller.abort() was called).
Cancelled(i) == submits[i].token \in aborted

\* C18: an attempt whose token is cancelled starts no later step: from the
\* step it was in, it can only end; in particular one cancelled during the
\* storage upload issues no insert.
C18_NoStepAfterCancel ==
    [][\A i \in DOMAIN submits :
        Cancelled(i) => submits'[i].pc \in {submits[i].pc, "done"}]_vars

\* C19: an attempt whose token was cancelled ends silently: none of its
\* steps writes gallery, processingState or error, and its token check never
\* throws.
C19_CancelledEndsSilently ==
    /\ [](\A i \in DOMAIN submits : submits[i].end # "threw")
    /\ [][\A i \in DOMAIN submits :
            (Cancelled(i) /\ submits'[i] # submits[i]) =>
                /\ gallery' = gallery
                /\ processingState' = processingState
                /\ error' = error]_vars

StorageWrites(o) ==
    Cardinality({i \in DOMAIN submits : i = o /\ submits[i].stored})
    + Cardinality({c \in DOMAIN calcs : calcs[c].owner = o /\ calcs[c].stored})
DatabaseInserts(o) ==
    Cardinality({i \in DOMAIN submits : i = o /\ submits[i].inserted})
    + Cardinality({c \in DOMAIN calcs : calcs[c].owner = o /\ calcs[c].inserted})

\* C21: for each image shown in the gallery at most one storage write and
\* at most one database insert have completed.
C21_OneUploadPerImage ==
    \A k \in DOMAIN gallery :
        /\ StorageWrites(gallery[k].owner) <= 1
        /\ DatabaseInserts(gallery[k].owner) <= 1

\* The half of C21 that holds: a price calculation uploads only an image
\* that lacks the public URL or the database record.
C21_CalcUploadsOnlyLocalImages ==
    \A c \in DOMAIN calcs :
        calcs[c].pc \in {"storing", "inserting"} =>
            ~(calcs[c].image.publicUrl /\ calcs[c].image.rowid # 0)

\* A submit newer than submit o has finalized.
NewerSubmitFinalized(o) ==
    \E j \in DOMAIN submits : j > o /\ submits[j].end = "ok"

\* The steps that write the gallery from an upload: setGallery([newImage])
\* of a submit (finalize, or the preview of the catch) and
\* setGallery(updatedGallery) of a price calculation.
SubmitWritesGallery(i) ==
    submits[i].pc \in {"finalizing", "previewing"} /\ submits'[i].pc = "done"
CalcWritesGallery(c) ==
    calcs[c].pc = "inserting" /\ calcs'[c].pc = "timer"

\* C22: once a newer submit has finalized, no upload started earlier, by a
\* submit or by a price calculation, writes the gallery when it resolves.
C22_NoWriteOverNewerFinalize ==
    [][/\ \A i \in DOMAIN submits :
            NewerSubmitFinalized(i) => ~SubmitWritesGallery(i)
       /\ \A c \in DOMAIN calcs :
            NewerSubmitFinalized(calcs[c].owner) => ~CalcWritesGallery(c)]_vars

\* The half of C22 that holds: the uploads of submits.
C22_SubmitsNeverOverwrite ==
    [][\A i \in DOMAIN submits :
            NewerSubmitFinalized(i) => ~SubmitWritesGallery(i)]_vars

\* A newer operation has begun since price calculation c was started: a
\* new submit or Start Over (the stale mark, which the unmount sets too,
\* hence `mounted`), or a new price calculation.
Superseded(c) ==
    mounted /\ (calcs[c].stale \/ c < Len(calcs))

\* The steps of pollForData that write priceResult and processingState: the
\* price, and the two give-up payloads.  They end the loop.
PollerWrites(c) ==
    calcs[c].pc \in {"timer", "reading"} /\ calcs'[c].pc = "done"

\* C23: a polling tick or pricing read that resolves after a newer
\* operation began writes neither priceResult nor processingState.
C23_StalePollerDiscarded ==
    [][\A c \in DOMAIN calcs :
        (Superseded(c) /\ calcs[c].pc \in {"timer", "reading"}) =>
            /\ ~PollerWrites(c)
            /\ calcs'[c].pc # calcs[c].pc =>
                    /\ priceResult' = priceResult
                    /\ processingState' = processingState]_vars

\* The messages uploadToSupabase's catch can show.
UserFacingErrors ==
    {UserFriendlyMessage(w) :
        w \in {"not configured", "storage", "database", "network", "other"}}

\* The storage upload or the insert of submit i fails in this step and the
\* catch of processFiles finds the attempt not cancelled.
UploadFailsNow(i) ==
    /\ submits[i].pc \in {"compressing", "storing", "inserting"}
    /\ submits'[i].pc = "previewing"

\* C24: when the storage upload or the insert of a submit that was not
\* cancelled fails, processingState becomes 'error' and a user-facing
\* message is set in that step, and the attempt goes on to the preview
\* (with a live token an upload step never ends the attempt); the attempt
\* ends by replacing the gallery with exactly one image, read from the
\* original file, without public URL and without database record.
C24_FailedUploadLeavesPreview ==
    [][\A i \in DOMAIN submits :
        /\ UploadFailsNow(i) =>
                /\ processingState' = "error"
                /\ error' \in UserFacingErrors
                /\ gallery' = gallery
        /\ (TokenCheck = "live" /\ submits[i].pc \in {"storing", "inserting"}) =>
                submits'[i].pc # "done"
        /\ EndsNow(i, "failed") =>
                /\ submits[i].pc = "previewing"
                /\ Len(gallery') = 1
                /\ gallery'[1].owner = i
                /\ gallery'[1].file = "original"
                /\ ~gallery'[1].publicUrl
                /\ gallery'[1].rowid = 0
                /\ selectedImageIndex' = 0]_vars

\* A submit whose compression re-encoded the image failed at the insert and
\* left its preview in the gallery, in the error state.
C24_Witness ==
    \E i \in DOMAIN submits :
        /\ submits[i].end = "failed"
        /\ submits[i].stored /\ ~submits[i].inserted
        /\ gallery = <<PreviewImage(i)>>
        /\ processingState = "error"
        /\ error = UserFriendlyMessage("database")

\* A required configuration value is missing or malformed: the URL is not
\* an https URL, or the key is absent or shorter than 100 characters.
ConfigMissingOrMalformed ==
    \/ env.VITE_SUPABASE_URL \in {Undefined, HttpUrl}
    \/ env.VITE_SUPABASE_ANON_KEY = Absent
    \/ env.VITE_SUPABASE_ANON_KEY < MIN_KEY_LENGTH

\* No storage upload, insert or pricing read has reached the remote service.
NoRemoteCall ==
    /\ \A i \in DOMAIN submits :
            /\ submits[i].pc \notin {"storing", "inserting", "finalizing"}
            /\ ~submits[i].stored /\ ~submits[i].inserted
    /\ \A c \in DOMAIN calcs :
            /\ calcs[c].pc \notin {"storing", "inserting", "reading"}
            /\ ~calcs[c].stored /\ ~calcs[c].inserted /\ calcs[c].reads = 0
    /\ \A r \in DOMAIN refreshes : refreshes[r].reads = 0
    /\ nextRow = 0

\* C25: with a configuration value missing or malformed there is no client
\* and no storage upload, insert or pricing read reaches the remote
\* service; a submit that gets to its upload (token live) shows the
\* configuration message in the error state and goes on to the preview,
\* and a price calculation fails at once in the error state.
C25_BadConfigFailsBeforeRemoteCall ==
    /\ [](ConfigMissingOrMalformed =>
            (getSupabaseClient = "null" /\ NoRemoteCall))
    /\ [][ConfigMissingOrMalformed =>
            /\ \A i \in DOMAIN submits :
                (/\ submits[i].pc = "compressing"
                 /\ submits'[i].pc # "compressing"
                 /\ TokenCheck = "live") =>
                    /\ error' = UserFriendlyMessage("not configured")
                    /\ processingState' = "error"
                    /\ submits'[i].pc = "previewing"
            /\ Len(calcs') > Len(calcs) =>
                    /\ Last(calcs').end = "failed"
                    /\ processingState' = "error"
                    /\ error' # "none"]_vars

\* With a key that is too short, a submit ended with the configuration
\* message, the error state and its local preview.
C25_Witness ==
    /\ env.VITE_SUPABASE_URL = HttpsUrl
    /\ env.VITE_SUPABASE_ANON_KEY = MIN_KEY_LENGTH - 1
    /\ \E i \in DOMAIN submits :
        /\ submits[i].end = "failed"
        /\ gallery = <<PreviewImage(i)>>
        /\ processingState = "error"
        /\ error = UserFriendlyMessage("not configured")

\* C26: a click on Dismiss (the only step that clears a displayed error
\* while no call starts, no promise resolves and no timer fires) leaves
\* gallery, selectedImageIndex, priceResult and processingState unchanged.
C26_DismissClearsErrorOnly ==
    [][(/\ CanDismiss
        /\ error' = "none"
        /\ UNCHANGED <<refVars, taskVars, showResults>>) =>
            UNCHANGED <<gallery, selectedImageIndex, priceResult,
                        processingState>>]_vars

\* The error of a failed submit was dismissed before the reset timer fired:
\* the preview and the error state are still there, the message is gone.
C26_Witness ==
    /\ Len(submits) = 1 /\ submits[1].end = "failed"
    /\ calcs = <<>> /\ refreshes = <<>>
    /\ timers = <<<<"reset", 1>>>>
    /\ gallery = <<PreviewImage(1)>>
    /\ processingState = "error"
    /\ error = "none"

\* The pricing reads (fetchPricingData calls) that are outstanding: those
\* of the polling loops and those of the refreshes.
PricingReadsOutstanding ==
    Cardinality({c \in DOMAIN calcs : calcs[c].pc = "reading"})
    + Cardinality({r \in DOMAIN refreshes : refreshes[r].pc = "reading"})

\* C27: at any instant at most one pricing read is outstanding.
C27_ReadsSequential == PricingReadsOutstanding <= 1

\* The part of C27 that holds: the reads of one polling loop are sequential,
\* its timer is never pending while its read is outstanding.
C27_OneLoopSequential ==
    \A c \in DOMAIN calcs :
        /\ calcs[c].pc = "reading" => ~PollTimerPending(c)
        /\ Cardinality({k \in DOMAIN timers : timers[k] = <<"poll", c>>}) <= 1

\* The steps of one submit, in the order of processFiles: validateFile,
\* compressAndOptimizeImage, the storage upload and the insert of
\* uploadToSupabase, and the finalize (preview, setGallery).
SubmitSteps == <<"validating", "compressing", "storing", "inserting", "finalizing">>
StepIndex(pc) == CHOOSE k \in DOMAIN SubmitSteps : SubmitSteps[k] = pc

\* C28: a submit moves from a step only to the next one of the order (or
\* out of the order: it ends, or goes to the preview of the catch), it is
\* in a step after validation only with a file that validation accepts,
\* in the insert only after its storage upload succeeded, and in the
\* finalize only after its insert succeeded; no insert completes without
\* the storage upload having succeeded.
C28_StepsInOrder ==
    /\ [](\A i \in DOMAIN submits :
            /\ submits[i].pc \in InUploadSteps => ValidFile(submits[i].file)
            /\ submits[i].pc = "inserting" => submits[i].stored
            /\ submits[i].pc = "finalizing" => submits[i].inserted
            /\ submits[i].end = "ok" => submits[i].inserted
            /\ submits[i].inserted => submits[i].stored
            /\ submits[i].pc \in {"validating", "compressing", "storing"} =>
                    ~submits[i].stored)
    /\ [][\A i \in DOMAIN submits :
            /\ (submits'[i].pc # submits[i].pc /\ submits'[i].pc \in InUploadSteps) =>
                    /\ submits[i].pc \in {"validating"} \cup InUploadSteps
                    /\ StepIndex(submits'[i].pc) = StepIndex(submits[i].pc) + 1
            /\ submits'[i].pc # "validating" \/ submits[i].pc = "validating"
            /\ EndsNow(i, "ok") => submits[i].pc = "finalizing"]_vars

\* One submit failed at its storage upload and inserted nothing; another
\* went through all five steps.
C28_Witness ==
    /\ getSupabaseClient = "client"
    /\ \E i, j \in DOMAIN submits :
        /\ submits[i].end = "failed" /\ ~submits[i].stored /\ ~submits[i].inserted
        /\ submits[j].end = "ok" /\ submits[j].stored /\ submits[j].inserted

\* The row identifiers inserted for the image of submit o: by the submit
\* itself and by the price calculations that uploaded the image.
RowsOf(o) ==
    {submits[i].row : i \in {j \in DOMAIN submits : j = o /\ submits[j].inserted}}
    \cup {calcs[c].rowid : c \in {k \in DOMAIN calcs :
                                    calcs[k].owner = o /\ calcs[k].inserted}}

\* The registrations (inserts that completed), and the identifier of each.
\* crypto.randomUUID() is taken to return an identifier never returned
\* before: nextRow + 1.
Registrations ==
    {<<"submit", i>> : i \in {j \in DOMAIN submits : submits[j].inserted}}
    \cup {<<"calc", c>> : c \in {k \in DOMAIN calcs : calcs[k].inserted}}
RowOfRegistration(g) ==
    IF g[1] = "submit" THEN submits[g[2]].row ELSE calcs[g[2]].rowid

C32_PathKeepsOriginalExtension ==
    \A i \in DOMAIN submits :
        submits[i].pc \in {"storing", "inserting"} =>
            /\ submits[i].path.dir = "uploads"
            /\ submits[i].path.ext = Last(NameOf(submits[i].file))

\* The half of C32 that holds: the path of an artifact that is the original
\* file has the file's extension.
C32_OriginalKeepsExtension ==
    \A i \in DOMAIN submits :
        (submits[i].pc \in {"storing", "inserting"} /\ submits[i].blob = "original") =>
            /\ submits[i].path.dir = "uploads"
            /\ submits[i].path.ext = Last(NameOf(submits[i].file))

\* The payload the claim describes for the priced record d of row rowid,
\* its price add-on being `prefix` followed by the amount.
PricePayload(d, rowid, prefix) ==
    [text |-> prefix \o ToString(d.priceaddon),
     cakeDesignDetails |-> IF d.infoaddon = "" THEN "Design analyzed" ELSE d.infoaddon,
     cakeType |-> IF d.type = "" THEN "Custom" ELSE d.type,
     height |-> IF d.thickness = "" THEN "Standard" ELSE d.thickness,
     rowId |-> rowid, hasRealData |-> TRUE, needsRefresh |-> FALSE]

\* A read of polling loop c, or of refresh r, resolves with a priced record
\* in this step.
PollGetsData(c) == calcs[c].pc = "reading" /\ calcs'[c].end = "data"
RefreshGetsData(r) == refreshes[r].pc = "reading" /\ refreshes'[r].end = "data"

\* C33: when a read returns a priced record (amount 0 included), the
\* payload published has hasRealData = TRUE, the price add-on "+" followed
\* by the amount (150 gives "+150"), the record's description, type and
\* thickness or their defaults, and processingState becomes 'complete'.
C33_PublishesPlusAmount ==
    [][/\ \A c \in DOMAIN calcs : PollGetsData(c) =>
            /\ processingState' = "complete"
            /\ \E d \in PricingRecords :
                    priceResult' = PricePayload(d, calcs[c].rowid, "+")
       /\ \A r \in DOMAIN refreshes : RefreshGetsData(r) =>
            /\ processingState' = "complete"
            /\ \E d \in PricingRecords :
                    priceResult' = PricePayload(d, refreshes[r].rowId, "+")]_vars

\* C33 amended: the price add-on published is "+₱" followed by the amount
\* (150 gives "+₱150", 0 gives "+₱0"); the rest is as stated.
C33_PublishesPesoAmount ==
    [][/\ \A c \in DOMAIN calcs : PollGetsData(c) =>
            /\ processingState' = "complete"
            /\ \E d \in PricingRecords :
                    priceResult' = PricePayload(d, calcs[c].rowid, "+₱")
       /\ \A r \in DOMAIN refreshes : RefreshGetsData(r) =>
            /\ processingState' = "complete"
            /\ \E d \in PricingRecords :
                    priceResult' = PricePayload(d, refreshes[r].rowId, "+₱")]_vars

\* A polling loop got the record with amount 0 and empty columns on its
\* second read: "+₱0" and the three defaults are on display.
C33_Witness ==
    \E c \in DOMAIN calcs :
        /\ calcs[c].end = "data" /\ calcs[c].firstData = 2
        /\ processingState = "complete"
        /\ priceResult.hasRealData
        /\ priceResult.text = "+₱0"
        /\ priceResult.cakeDesignDetails = "Design analyzed"
        /\ priceResult.cakeType = "Custom"
        /\ priceResult.height = "Standard"
        /\ priceResult.rowId = calcs[c].rowid

\* C34: while a submit is between the start of compression and its
\* finalize or failure handling, processingState is 'uploading': nothing
\* left over from an earlier action changes it.
C34_UploadingWhileInFlight ==
    \A i \in DOMAIN submits :
        submits[i].pc \in InUploadSteps => processingState = "uploading"

\* What does hold: the submit itself writes nothing to processingState
\* between 'uploading' and its finalize or failure handling.
C34_SubmitWritesNothingInBetween ==
    [][\A i \in DOMAIN submits :
        (/\ submits[i].pc \in InUploadSteps
         /\ submits'[i].pc \in InUploadSteps
         /\ submits'[i].pc # submits[i].pc) =>
            processingState' = processingState]_vars

\* C35: the in-flight flag is true only while an accepted submit is
\* running, and whenever it is true it eventually becomes false.
C35_GuardAlwaysReleased ==
    /\ [](isProcessingUpload => \E i \in DOMAIN submits : submits[i].pc # "done")
    /\ (isProcessingUpload ~> ~isProcessingUpload)

\* What holds: every way a submit ends leaves the flag false, and the flag
\* is true only while a submit is running.
C35_EveryEndReleases ==
    /\ [](isProcessingUpload => \E i \in DOMAIN submits : submits[i].pc # "done")
    /\ [][\A i \in DOMAIN submits' :
            (submits'[i].pc = "done" /\ (i \in DOMAIN submits => submits[i].pc # "done"))
                => ~isProcessingUpload']_vars
    /\ \A i \in 1..MaxSubmits :
            (i \in DOMAIN submits /\ submits[i].pc # "done")
                ~> (\/ ~isProcessingUpload
                    \/ (i \in DOMAIN submits
                        /\ submits[i].pc \in {"finalizing", "previewing"}))

\* C36: an empty gallery is filled by a submit only (its finalize, or the
\* preview of its catch); in particular, after Clear image or Start Over no
\* upload that a price calculation started earlier puts the image back.
C36_ClearedGalleryStaysEmpty ==
    [][(gallery = <<>> /\ gallery' # <<>>) =>
            /\ \E i \in DOMAIN submits : SubmitWritesGallery(i)
            /\ \A c \in DOMAIN calcs : ~CalcWritesGallery(c)]_vars

\* C37: a non-null priceResult belongs to the image on display: the gallery
\* is not empty and the rowId of priceResult is the rowid of the database
\* record of the gallery image.
C37_PriceBelongsToDisplayedImage ==
    priceResult # NoPrice =>
        /\ gallery # <<>>
        /\ priceResult.rowId = gallery[selectedImageIndex + 1].rowid

\* Refresh r ends in this step without a price: its read returned a record
\* whose priceaddon is null, or it failed (fetchPricingData throws before
\* the remote call when there is no client).
RefreshEndsWithoutPrice(r) ==
    /\ refreshes'[r].end \in {"null", "fail"}
    /\ r \in DOMAIN refreshes => refreshes[r].pc = "reading"

\* C38: a refresh that ends without a price leaves priceResult as it was,
\* with its rowId and needsRefresh, surfaces an error and sets
\* processingState to 'idle'; where the refresh control is on display it is
\* enabled again.
C38_FailedRefreshKeepsPrice ==
    [][\A r \in DOMAIN refreshes' :
        RefreshEndsWithoutPrice(r) =>
            /\ priceResult' = priceResult
            /\ error' \in {"Pricing data not ready yet", "Failed to refresh pricing"}
            /\ processingState' = "idle"
            /\ (mounted /\ GalleryView /\ priceResult # NoPrice
                    /\ priceResult.needsRefresh) => CanRefresh']_vars

\* A refresh ended without a price and the give-up payload it was started
\* from is still the priceResult, with the refresh control enabled.
C38_Witness ==
    \E r \in DOMAIN refreshes :
        /\ refreshes[r].end \in {"null", "fail"}
        /\ refreshes[r].reads = 1
        /\ priceResult.needsRefresh
        /\ priceResult.rowId = refreshes[r].rowId
        /\ error \in {"Pricing data not ready yet", "Failed to refresh pricing"}
        /\ CanRefresh

\* The file a call of processFiles works on is the first of its event's
\* files, or, where handlePaste skipped files that are no images, the first
\* image of them.
FirstOfEvent(i) ==
    LET event == submits[i].event IN
    \/ submits[i].file = event[1]
    \/ ~IsImageType(event[1].type) /\ submits[i].file = ImagesOf(event)[1]

\* C39: the gallery holds at most one image and selectedImageIndex is 0; an
\* event with several files starts one call of processFiles, which works on
\* the first file only.
C39_OneImageFirstFileOnly ==
    /\ [](/\ Len(gallery) <= 1
          /\ selectedImageIndex = 0
          /\ \A i \in DOMAIN submits : submits[i].pc # "done" => FirstOfEvent(i))
    /\ [][Len(submits') <= Len(submits) + 1]_vars

\* An event with several files whose first image went through validation,
\* compression, upload and insert, while the gallery shows one image.
C39_Witness ==
    /\ Len(gallery) = 1
    /\ \E i \in DOMAIN submits :
        /\ Len(submits[i].event) > 1
        /\ submits[i].pc = "finalizing"
        /\ submits[i].stored /\ submits[i].inserted
        /\ FirstOfEvent(i)

(***************************************************************************)
(* Properties of validateFile, under SpecValidate                          *)
(***************************************************************************)
NotAnImage == cfile.type \notin {"image/jpeg", "image/png", "image/gif", "image/webp"}
OverTenMB == cfile.size > 10 * 1024 * 1024
UnderMinimum == cfile.width < 200 \/ cfile.height < 200
ReadErrors == {"Failed to read file", "Could not read image dimensions"}

\* C14: a file is rejected exactly when it is not an image, or is larger
\* than 10 MB (10 MB itself passes), or an edge is below 200 px (200 itself
\* passes), or it cannot be read; type and size are rejected before the
\* file is read; a file that cannot be read gets a message that is not the
\* 'too small' one.
C14_ValidationRule ==
    Len(submits) = 1 =>
        LET s == submits[1] IN
        /\ (NotAnImage \/ OverTenMB) =>
                /\ s.end = "invalid"
                /\ error = IF NotAnImage THEN "Invalid file type" ELSE "File is too large"
        /\ s.pc = "validating" => (~NotAnImage /\ ~OverTenMB)
        /\ s.pc = "compressing" => (~NotAnImage /\ ~OverTenMB /\ ~UnderMinimum)
        /\ s.pc \in {"validating", "compressing"} \/ s.end = "invalid"
        /\ (s.end = "invalid" /\ ~NotAnImage /\ ~OverTenMB) =>
                /\ error \in ReadErrors \cup {"Image is too small"}
                /\ error = "Image is too small" => UnderMinimum
                /\ ~UnderMinimum => error \in ReadErrors

\* A PNG of exactly 10 MB and exactly 200 x 200 passed validation.
C14_Witness ==
    /\ Len(submits) = 1
    /\ submits[1].pc = "compressing"
    /\ cfile.size = 10485760 /\ cfile.width = 200 /\ cfile.height = 200

(***************************************************************************)
(* Properties of compressAndOptimizeImage, under SpecCompress              *)
(***************************************************************************)
LongEdge == Max(cfile.width, cfile.height)
AlreadySmall == LongEdge <= MAX_LONG_EDGE /\ cfile.size <= TARGET_MAX_BYTES

\* C8: for every input image whose long edge is <= 1800 px and whose byte
\* size is <= 1,200,000, the call never encodes and resolves with the file
\* itself (its bytes unchanged) and compressionRatio 1.
C8_SmallInputReturnedUnchanged ==
    (IsImageType(cfile.type) /\ AlreadySmall) =>
        /\ encLog = <<>>
        /\ cpc # "encoding"
        /\ cpc = "done" =>
            /\ cresult.kind = "original"
            /\ cresult.blobSize = cfile.size
            /\ cresult.ratioNum = 1 /\ cresult.ratioDen = 1

\* A decoded JPEG exactly on both thresholds took the skip branch.
C8_Witness ==
    /\ cpc = "done"
    /\ cfile.type = "image/jpeg"
    /\ LongEdge = MAX_LONG_EDGE /\ cfile.size = TARGET_MAX_BYTES
    /\ cresult.kind = "original" /\ ~cresult.error

\* C9: the retry loop makes at most 5 encode attempts whatever sizes the
\* encoder returns, a call that has not resolved can always take its next
\* step, and a resolved call has a result (the re-encoded blob, also when it
\* misses the byte target, or the original file).
C9_LoopBoundedAndYields ==
    /\ Len(encLog) <= MAX_TRIES
    /\ cpc = "encoding" => Len(encLog) < MAX_TRIES
    /\ cpc \in {"idle", "decoding", "encoding"} => ENABLED NextCompress
    /\ cpc = "done" => cresult.kind \in {"original", "encoded"}

\* The call resolved with a blob that misses the byte target.
C9_Witness ==
    /\ cpc = "done"
    /\ cresult.kind = "encoded"
    /\ cresult.blobSize > TARGET_MAX_BYTES

\* C10: the i-th encode is made at quality max(0.60, 0.85 - 0.10 (i - 1));
\* the blob returned is the last encode, every encode before it was over
\* 1,200,000 bytes, and it is within the budget or was encoded at 0.60.
C10_QualitySchedule ==
    /\ \A i \in 1..Len(encLog) :
        encLog[i].q = Max(QUALITY_MIN, QUALITY_START - QUALITY_STEP * (i - 1))
    /\ (cpc = "done" /\ cresult.kind = "encoded") =>
        /\ cresult.blobSize = Last(encLog).size
        /\ cresult.quality = Last(encLog).q
        /\ \A i \in 1..(Len(encLog) - 1) : encLog[i].size > TARGET_MAX_BYTES
        /\ cresult.blobSize <= TARGET_MAX_BYTES \/ cresult.quality = QUALITY_MIN

\* Every encode missed the target and the floor-quality blob was returned.
C10_Witness ==
    /\ cpc = "done"
    /\ cresult.kind = "encoded"
    /\ cresult.blobSize > TARGET_MAX_BYTES
    /\ cresult.quality = QUALITY_MIN
    /\ Len(encLog) = 4

\* C11: for a GIF of any byte size and any dimensions the call neither
\* decodes nor encodes, and resolves with the file itself, ext 'gif',
\* compressionRatio 1 and no error marker.
C11_GifSkipped ==
    cfile.type = "image/gif" =>
        /\ cpc \in {"idle", "done"}
        /\ encLog = <<>>
        /\ cpc = "done" =>
            /\ cresult.kind = "original"
            /\ cresult.blobSize = cfile.size
            /\ cresult.ext = "gif"
            /\ cresult.ratioNum = 1 /\ cresult.ratioDen = 1
            /\ ~cresult.error

\* A 4,000,000 byte GIF with a 3000 px edge came back as it was.
C11_Witness ==
    /\ cfile.type = "image/gif"
    /\ cfile.size > TARGET_MAX_BYTES /\ LongEdge > MAX_LONG_EDGE
    /\ cpc = "done"
    /\ cresult.kind = "original"

NeedsEncoding == IsImageType(cfile.type) /\ ~IsGif(cfile.type) /\ ~AlreadySmall
IsOriginal(r) ==
    /\ r.kind = "original"
    /\ r.blobSize = cfile.size
    /\ r.ratioNum = 1 /\ r.ratioDen = 1

C13_AlwaysReportsSizes ==
    cpc = "done" =>
        /\ cresult.originalSize # Absent
        /\ cresult.compressedSize # Absent
        /\ cresult.ratioNum # Absent /\ cresult.ratioDen # Absent
        /\ (cresult.dimensions # <<Absent, Absent>>) <=> (cresult.kind = "encoded")
        /\ (cresult.originalDimensions # <<Absent, Absent>>) <=> (cresult.kind = "encoded")

\* C13 amended: every result carries the blob and compressionRatio; the
\* fields originalSize, compressedSize, dimensions and originalDimensions
\* are present exactly when the result is a re-encoded blob, and then
\* originalSize is the file's size, compressedSize the blob's size,
\* originalDimensions the bitmap's and dimensions the canvas's.
C13_SizesOnlyWhenEncoded ==
    cpc = "done" =>
        /\ cresult.blobSize # Absent
        /\ cresult.ratioNum # Absent /\ cresult.ratioDen # Absent
        /\ cresult.kind = "original" =>
            /\ cresult.originalSize = Absent
            /\ cresult.compressedSize = Absent
            /\ cresult.dimensions = <<Absent, Absent>>
            /\ cresult.originalDimensions = <<Absent, Absent>>
        /\ cresult.kind = "encoded" =>
            /\ cresult.originalSize = cfile.size
            /\ cresult.compressedSize = cresult.blobSize
            /\ cresult.ratioNum = cfile.size /\ cresult.ratioDen = cresult.blobSize
            /\ cresult.originalDimensions = <<cfile.width, cfile.height>>
            /\ cresult.dimensions = <<TargetEdge(cfile.width, LongEdge),
                                      TargetEdge(cfile.height, LongEdge)>>

\* A skipped small JPEG: a result without the four fields.
C13_Witness ==
    /\ cpc = "done"
    /\ IsImageType(cfile.type) /\ ~IsGif(cfile.type) /\ AlreadySmall
    /\ cresult.kind = "original" /\ ~cresult.error
    /\ cresult.originalSize = Absent /\ cresult.compressedSize = Absent

\* d is a nearest integer to num / den (a half may go either way).
NearestTo(d, num, den) ==
    /\ 2 * d * den - 2 * num <= den
    /\ 2 * num - 2 * d * den <= den

\* d is round(src * s) floored at 1, for s = min(1, 1800 / longEdge).
RoundedScaled(d, src, longEdge) ==
    IF longEdge <= MAX_LONG_EDGE
    THEN d = src
    ELSE \/ NearestTo(d, src * MAX_LONG_EDGE, longEdge) /\ d >= 1
         \/ NearestTo(0, src * MAX_LONG_EDGE, longEdge) /\ d = 1

\* C29: the dimensions of a compression that was performed are the scaled
\* source dimensions rounded to the nearest pixel, each at least 1; the
\* long edge is at most 1800 and no dimension exceeds its source dimension.
C29_TargetDimensions ==
    cresult.kind = "encoded" =>
        LET w == cfile.width
            h == cfile.height
            dstW == cresult.dimensions[1]
            dstH == cresult.dimensions[2]
        IN /\ cresult.originalDimensions = <<w, h>>
           /\ RoundedScaled(dstW, w, Max(w, h))
           /\ RoundedScaled(dstH, h, Max(w, h))
           /\ dstW >= 1 /\ dstH >= 1
           /\ Max(dstW, dstH) <= MAX_LONG_EDGE
           /\ dstW <= w /\ dstH <= h

\* A 1 x 4000 image was encoded at 1 x 1800: its width, 0.45 when scaled,
\* rounds to 0 and is floored at 1.
C29_Witness ==
    /\ cresult.kind = "encoded"
    /\ cfile.width = 1 /\ cfile.height = 4000
    /\ cresult.dimensions = <<1, 1800>>

\* C30: for a compression that was performed, compressionRatio is
\* originalSize / compressedSize, compressedSize is the size of the blob
\* returned (that of the last encode), originalSize is file.size, and the
\* ratio is not negative.
C30_RatioReported ==
    cresult.kind = "encoded" =>
        /\ cresult.originalSize = cfile.size
        /\ cresult.compressedSize = cresult.blobSize
        /\ cresult.blobSize = Last(encLog).size
        /\ cresult.ratioNum = cresult.originalSize
        /\ cresult.ratioDen = cresult.compressedSize
        /\ cresult.ratioNum >= 0 /\ cresult.ratioDen > 0

\* A 900,000 byte image with a long edge over 1800 came back as a
\* 2,000,000 byte blob: the ratio reported is 900000 / 2000000.
C30_Witness ==
    /\ cresult.kind = "encoded"
    /\ cfile.size = 900000
    /\ cresult.blobSize = 2000000
    /\ cresult.ratioNum = 900000 /\ cresult.ratioDen = 2000000

====
